---- MODULE Spec2Model ----
(***************************************************************************)
(* ESG_parser: three site crawls (Rambler, RBC, RIA) gathered by           *)
(* main.main on one asyncio event loop.  Each site main first runs the     *)
(* synchronous, browser-driven collect_urls, then fetches the collected    *)
(* addresses over HTTP, maps each page to a record and appends the records *)
(* to the site's CSV file.                                                 *)
(***************************************************************************)
EXTENDS Integers, Sequences, FiniteSets, TLC

(* ------------------------------ bounds --------------------------------- *)
\* number of DOM nodes held by the open documents and the collected lists
MaxNodes == 2
\* number of scroll iterations of one scroll loop
MaxScroll == 3
\* number of KeyboardInterrupts delivered during one run
MaxInterrupts == 1

(* ----------------------------- constants ------------------------------- *)
Targets == {"rambler", "rbc", "ria"}
\* main.py:10  tasks = [rambler(), rbc(), ria()]
GatherOrder == <<"rambler", "rbc", "ria">>
Addrs == {"a1", "a2"}
NoneVal == "<None>"
Company == "Sberbank"
CSV_HEADERS == <<"title", "company", "date", "text">>

VARIABLES
  pc,              \* position of each site main
  cur,             \* the task holding the event-loop thread, or "none"
  ready,           \* FIFO of gathered tasks that have not run their first step
  mainState,       \* main.main: "waiting", "raised" or "returned"
  exc,             \* the exception a site main ended with
  browser,         \* WebDriver session of each target: none / open / closed
  dom,             \* nodes of the document loaded in the target's browser
  marker,          \* TARGET_DATE is present in the body text
  scroll_complete, \* a completion check has returned true
  button_clicked,  \* ria: local flag of collect_urls
  scrolls,         \* number of scroll iterations issued
  clicks,          \* number of attempts on the "load more" trigger
  lastRead,        \* outcome of the last body read of a completion check
  sigint,          \* a KeyboardInterrupt was raised inside collect_urls
  urls,            \* value built by collect_urls
  sessA,           \* DataParser.session (opened in __init__)
  sessB,           \* the session of parse_data's "async with"
  results,         \* parsed_data
  last,            \* parse_data's countdown of pages left
  file             \* rows appended to the target's CSV file

vars == <<pc, cur, ready, mainState, exc, browser, dom, marker,
          scroll_complete, button_clicked, scrolls, clicks, lastRead, sigint,
          urls, sessA, sessB, results, last, file>>

loaderVars == <<scroll_complete, button_clicked, scrolls, clicks, lastRead>>
fetchVars  == <<sessA, sessB, results, last, file>>

(* --------------------------- the document ------------------------------ *)
\* A node is an element the link selector is tried on.  For rambler and ria
\* it is an anchor (hrefs has its one href); for rbc it is an element of
\* class search-item js-search-item and hrefs lists the hrefs of the
\* a.search-item__link.js-search-item-link anchors inside it.
Node(c, h) == [cls |-> c, hrefs |-> h]

NodeKinds(t) ==
  IF t = "rbc"
    THEN { Node("match", <<"a1">>), Node("match", <<"a2", "a1">>),
           Node("match", <<>>), Node("other", <<"a1">>) }
    ELSE { Node("match", <<"a1">>), Node("match", <<"a2">>),
           Node("other", <<"a1">>) }

RECURSIVE SumLen(_, _)
SumLen(f, S) ==
  IF S = {} THEN 0
  ELSE LET t == CHOOSE x \in S : TRUE IN Len(f[t]) + SumLen(f, S \ {t})

\* the documents the page may show after one more load
Loads(t) ==
  {dom[t]} \cup
  IF SumLen(dom, Targets) + SumLen(urls, Targets) < MaxNodes
    THEN { Append(dom[t], n) : n \in NodeKinds(t) }
    ELSE {}

(* ------------------------- WebDriver (context) ------------------------- *)
\* an __exit__ that leaves the driver running
ExitWebDriverNoQuit(b) == b

\* __exit__: if self.driver: self.driver.quit()
ExitWebDriver(b) == IF b = "open" THEN "closed" ELSE b

(* ------------------------- completion check ---------------------------- *)
ReadOutcomes == {"ok", "stale", "nobody"}

\* EC.text_to_be_present_in_element((By.CSS_SELECTOR, "body"), TARGET_DATE):
\* a stale element gives False, a missing body raises NoSuchElementException
TextPresent(read, m) ==
  CASE read = "ok"     -> IF m THEN "true" ELSE "false"
    [] read = "stale"  -> "false"
    [] read = "nobody" -> "NoSuchElementException"

\* WebDriverWait(driver, 0.0).until(...): one evaluation; a true value is
\* returned, a false value and the ignored NoSuchElementException end in
\* TimeoutException, any other exception of the condition gets out
WaitUntil(read, m) ==
  LET v == TextPresent(read, m) IN
  IF v = "true" THEN "true"
  ELSE IF v \in {"false", "NoSuchElementException"} THEN "TimeoutException"
  ELSE v

\* a completion check without the except TimeoutException clause
CompletionCheckNoExcept(read, m) == WaitUntil(read, m)

\* the try around the wait: "true", "false" on TimeoutException (rambler:
\* return False; rbc, ria: continue), else the exception that gets out
CompletionCheck(read, m) ==
  LET r == WaitUntil(read, m) IN
  IF r = "TimeoutException" THEN "false" ELSE r

\* the completion check of the loop: True, or False on TimeoutException
IsTargetArticlePresent(read, m) == CompletionCheck(read, m) = "true"

ReadResult(read, m) ==
  IF read = "ok" THEN (IF m THEN "present" ELSE "absent") ELSE read

\* a loop whose rbc and ria variants set the flag but go round once more
AfterCheckNoBreak(t, found) ==
  IF found /\ t = "rambler" THEN "extract" ELSE "scroll"

\* where the loop goes after the completion check
AfterCheck(t, found) == IF found THEN "extract" ELSE "scroll"

\* where the loop goes after scroll-to-bottom
AfterScroll(t, clicked) ==
  IF t = "ria" /\ ~clicked THEN "click" ELSE "check"

(* ---------------------- ria: the "load more" button -------------------- *)
\* selenium.common.exceptions: every selenium exception derives from
\* WebDriverException
IsWebDriverException(e) ==
  e \in {"WebDriverException", "TimeoutException",
         "ElementClickInterceptedException", "NoSuchElementException"}

ClickOutcomes == {"clicked", "TimeoutException",
                  "ElementClickInterceptedException"}

\* a _click_more_button whose handler does not cover TimeoutException
ClickMoreButtonNarrow(outcome) ==
  IF outcome = "clicked" THEN "ok"
  ELSE IF outcome = "TimeoutException" THEN outcome ELSE "ok"

\* _click_more_button: "ok" when it returns, else the exception it lets out
ClickMoreButton(outcome) ==
  IF outcome = "clicked" THEN "ok"
  ELSE IF IsWebDriverException(outcome) THEN "ok" ELSE outcome

(* --------------------------- link extraction --------------------------- *)
\* the extraction loop: urls gathered, and the exception that ended it
RECURSIVE ExtractFrom(_, _, _, _)
ExtractFrom(t, d, i, acc) ==
  IF i > Len(d) THEN [urls |-> acc, raised |-> "none"]
  ELSE IF d[i].cls # "match" THEN ExtractFrom(t, d, i + 1, acc)
  ELSE IF Len(d[i].hrefs) = 0
    THEN [urls |-> acc, raised |-> "NoSuchElementException"]
  ELSE ExtractFrom(t, d, i + 1, Append(acc, Head(d[i].hrefs)))

\* an extraction that takes every anchor, whatever its class
RECURSIVE ExtractAllFrom(_, _, _)
ExtractAllFrom(d, i, acc) ==
  IF i > Len(d) THEN [urls |-> acc, raised |-> "none"]
  ELSE IF Len(d[i].hrefs) = 0
    THEN [urls |-> acc, raised |-> "NoSuchElementException"]
  ELSE ExtractAllFrom(d, i + 1, Append(acc, Head(d[i].hrefs)))

ExtractLinksAnyClass(t, d) == ExtractAllFrom(d, 1, <<>>)

ExtractLinks(t, d) == ExtractFrom(t, d, 1, <<>>)

Prefixes(s) == { SubSeq(s, 1, k) : k \in 0..Len(s) }

(* ------------------------------- Init ---------------------------------- *)
Init ==
  /\ pc = [t \in Targets |-> "pending"]
  /\ cur = "none"
  /\ ready = GatherOrder
  /\ mainState = "waiting"
  /\ exc = [t \in Targets |-> "none"]
  /\ browser = [t \in Targets |-> "none"]
  /\ dom = [t \in Targets |-> <<>>]
  /\ marker = [t \in Targets |-> FALSE]
  /\ scroll_complete = [t \in Targets |-> FALSE]
  /\ button_clicked = [t \in Targets |-> FALSE]
  /\ scrolls = [t \in Targets |-> 0]
  /\ clicks = [t \in Targets |-> 0]
  /\ lastRead = [t \in Targets |-> "none"]
  /\ sigint = [t \in Targets |-> FALSE]
  /\ urls = [t \in Targets |-> <<>>]
  /\ sessA = [t \in Targets |-> "none"]
  /\ sessB = [t \in Targets |-> "none"]
  /\ results = [t \in Targets |-> <<>>]
  /\ last = [t \in Targets |-> 0]
  /\ file = [t \in Targets |-> <<>>]

\* collect_urls is left (return or raise): the with block quits the driver,
\* the document and the locals of the call are gone
ExitCollect(t) ==
  /\ browser' = [browser EXCEPT ![t] = ExitWebDriver(browser[t])]
  /\ dom' = [dom EXCEPT ![t] = <<>>]
  /\ marker' = [marker EXCEPT ![t] = FALSE]
  /\ scroll_complete' = [scroll_complete EXCEPT ![t] = FALSE]
  /\ button_clicked' = [button_clicked EXCEPT ![t] = FALSE]
  /\ scrolls' = [scrolls EXCEPT ![t] = 0]
  /\ clicks' = [clicks EXCEPT ![t] = 0]
  /\ lastRead' = [lastRead EXCEPT ![t] = "none"]

\* a KeyboardInterrupt left a task: the event loop re-raises it at once
loopBroken == \E t \in Targets : pc[t] = "raised" /\ exc[t] = "KeyboardInterrupt"

(* --------------------------- collect_urls ------------------------------ *)
\* first step of a gathered site main: with WebDriver() as driver;
\* driver.get(url); driver.maximize_window()
Launch(t) ==
  /\ cur = "none" /\ mainState = "waiting" /\ ~loopBroken
  /\ ready # <<>> /\ Head(ready) = t /\ pc[t] = "pending"
  /\ ready' = Tail(ready)
  /\ cur' = t
  /\ browser' = [browser EXCEPT ![t] = "open"]
  /\ \E d \in Loads(t), m \in BOOLEAN :
       /\ dom' = [dom EXCEPT ![t] = d]
       /\ marker' = [marker EXCEPT ![t] = m]
  /\ pc' = [pc EXCEPT ![t] = IF t = "rambler" THEN "check" ELSE "scroll"]
  /\ UNCHANGED <<mainState, exc, sigint, urls>>
  /\ UNCHANGED loaderVars
  /\ UNCHANGED fetchVars

\* webdriver.Chrome(...) raises in __enter__: no session was opened
LaunchFail(t) ==
  /\ cur = "none" /\ mainState = "waiting" /\ ~loopBroken
  /\ ready # <<>> /\ Head(ready) = t /\ pc[t] = "pending"
  /\ ready' = Tail(ready)
  /\ pc' = [pc EXCEPT ![t] = "raised"]
  /\ exc' = [exc EXCEPT ![t] = "WebDriverException"]
  /\ UNCHANGED <<cur, mainState, browser, dom, marker, sigint, urls>>
  /\ UNCHANGED loaderVars
  /\ UNCHANGED fetchVars

\* the completion check (rambler: the while condition; rbc, ria: the inner try)
Check(t) ==
  /\ cur = t /\ pc[t] = "check"
  /\ \E read \in ReadOutcomes :
       LET r == CompletionCheck(read, marker[t])
           found == (r = "true")
       IN
       IF r \in {"true", "false"}
         THEN /\ lastRead' = [lastRead EXCEPT ![t] = ReadResult(read, marker[t])]
              /\ scroll_complete' =
                   [scroll_complete EXCEPT ![t] = scroll_complete[t] \/ found]
              /\ pc' = [pc EXCEPT ![t] = AfterCheck(t, found)]
              /\ UNCHANGED <<cur, exc, browser, dom, marker, button_clicked,
                             scrolls, clicks>>
         ELSE /\ ExitCollect(t)
              /\ pc' = [pc EXCEPT ![t] = "raised"]
              /\ exc' = [exc EXCEPT ![t] = r]
              /\ cur' = "none"
  /\ UNCHANGED <<ready, mainState, sigint, urls>>
  /\ UNCHANGED fetchVars

\* a settle delay that awaits asyncio.sleep and so gives the thread back
WaitForLoadAsync(t) == "none"

\* rambler's _wait_for_load: time.sleep(1) blocks the thread, which stays
\* with the task
WaitForLoad(t) == t

\* one scroll iteration: _scroll_to_bottom (rambler: then _wait_for_load and
\* _scroll_to_top); the page may load more content
Scroll(t) ==
  /\ cur = t /\ pc[t] = "scroll"
  /\ scrolls[t] < MaxScroll
  /\ scrolls' = [scrolls EXCEPT ![t] = @ + 1]
  /\ \E d \in Loads(t), m \in {marker[t], TRUE} :
       /\ dom' = [dom EXCEPT ![t] = d]
       /\ marker' = [marker EXCEPT ![t] = m]
  /\ pc' = [pc EXCEPT ![t] = AfterScroll(t, button_clicked[t])]
  /\ cur' = IF t = "rambler" THEN WaitForLoad(t) ELSE cur
  /\ UNCHANGED <<ready, mainState, exc, browser, scroll_complete,
                 button_clicked, clicks, lastRead, sigint, urls>>
  /\ UNCHANGED fetchVars

\* execute_script raises WebDriverException (the browser died): nothing in
\* collect_urls catches it, the with block quits the driver
ScrollCrash(t) ==
  /\ cur = t /\ pc[t] = "scroll"
  /\ ExitCollect(t)
  /\ pc' = [pc EXCEPT ![t] = "raised"]
  /\ exc' = [exc EXCEPT ![t] = "WebDriverException"]
  /\ cur' = "none"
  /\ UNCHANGED <<ready, mainState, sigint, urls>>
  /\ UNCHANGED fetchVars

\* ria: if not button_clicked: try _click_more_button / except TimeoutException
Click(t) ==
  /\ cur = t /\ pc[t] = "click"
  /\ \E outcome \in ClickOutcomes :
       LET r == ClickMoreButton(outcome) IN
       IF r \in {"ok", "TimeoutException"}
         THEN /\ clicks' = [clicks EXCEPT ![t] = @ + 1]
              /\ button_clicked' = [button_clicked EXCEPT ![t] = (r = "ok")]
              /\ pc' = [pc EXCEPT ![t] = IF r = "ok" THEN "check" ELSE "scroll"]
              /\ \E d \in (IF outcome = "clicked" THEN Loads(t) ELSE {dom[t]}) :
                   dom' = [dom EXCEPT ![t] = d]
              /\ UNCHANGED <<cur, exc, browser, marker, scroll_complete,
                             scrolls, lastRead>>
         ELSE /\ ExitCollect(t)
              /\ pc' = [pc EXCEPT ![t] = "raised"]
              /\ exc' = [exc EXCEPT ![t] = r]
              /\ cur' = "none"
  /\ UNCHANGED <<ready, mainState, sigint, urls>>
  /\ UNCHANGED fetchVars

\* the link extraction, and the end of the with block
Extract(t) ==
  /\ cur = t /\ pc[t] = "extract"
  /\ LET r == ExtractLinks(t, dom[t]) IN
       /\ urls' = [urls EXCEPT ![t] = r.urls]
       /\ pc' = [pc EXCEPT ![t] =
                   IF r.raised = "none" THEN "collected" ELSE "raised"]
       /\ exc' = [exc EXCEPT ![t] = r.raised]
       /\ cur' = IF r.raised = "none" THEN cur ELSE "none"
  /\ ExitCollect(t)
  /\ UNCHANGED <<ready, mainState, sigint>>
  /\ UNCHANGED fetchVars

\* what collect_urls does with a KeyboardInterrupt raised inside the with
\* block: rbc and ria catch it around the loop, rambler has no handler
CatchesInterrupt(t) == t \in {"rbc", "ria"}

Interrupt(t) ==
  /\ cur = t /\ pc[t] \in {"check", "scroll", "click", "extract"}
  /\ Cardinality({x \in Targets : sigint[x]}) < MaxInterrupts
  /\ sigint' = [sigint EXCEPT ![t] = TRUE]
  /\ ExitCollect(t)
  /\ IF CatchesInterrupt(t)
       THEN /\ \E u \in (IF pc[t] = "extract"
                           THEN Prefixes(ExtractLinks(t, dom[t]).urls)
                           ELSE {<<>>}) :
                 urls' = [urls EXCEPT ![t] = u]
            /\ pc' = [pc EXCEPT ![t] = "collected"]
            /\ UNCHANGED <<exc, cur>>
       ELSE /\ pc' = [pc EXCEPT ![t] = "raised"]
            /\ exc' = [exc EXCEPT ![t] = "KeyboardInterrupt"]
            /\ cur' = "none"
            /\ UNCHANGED urls
  /\ UNCHANGED <<ready, mainState>>
  /\ UNCHANGED fetchVars

(* ------------------------ fetching and mapping ------------------------- *)
\* What one GET gives: status 0 is a network failure or timeout (session.get
\* or response.text raises), otherwise the markup that came back.  title,
\* time and body say whether the element the site's selectors look for is
\* there and what it holds.
Response(st, ti, tm, bd) == [status |-> st, title |-> ti, time |-> tm, body |-> bd]

Responses ==
  { Response(200, "T", "D", "X"),
    Response(200, "absent", "D", "X"),
    Response(200, "T", "bad", "X"),
    Response(200, "T", "D", "empty"),
    Response(500, "absent", "absent", "absent"),
    Response(0, "absent", "absent", "absent") }

\* _parse_title: css_first(...) is None falls off the end of the function
ParseTitle(t, r) == IF r.title = "absent" THEN NoneVal ELSE r.title

\* _parse_date.  rambler, rbc: no <time> element returns None, a datetime
\* attribute fromisoformat rejects returns "".  ria: css_first(...).text() on
\* a missing element and parsed_date[0] on no match both raise, returning ""
ParseDate(t, r) ==
  IF t = "ria"
    THEN (IF r.time \in {"absent", "bad"} THEN "" ELSE r.time)
    ELSE (IF r.time = "absent" THEN NoneVal
          ELSE IF r.time = "bad" THEN "" ELSE r.time)

\* _parse_text.  rambler, ria: a missing block raises inside the try and
\* returns ""; rbc tests the block; ria also returns "" when split(".")
\* finds no second part
ParseText(t, r) ==
  IF r.body \in {"absent", "empty"} THEN "" ELSE r.body

\* a row of parsed_data; status remembers the response it was made from
Row(k, ti, co, da, tx, st) ==
  [kind |-> k, title |-> ti, company |-> co, date |-> da, text |-> tx,
   status |-> st]

EmptyRow(st) == Row("empty", NoneVal, NoneVal, NoneVal, NoneVal, st)  \* {}
NoneRow(st)  == Row("none", NoneVal, NoneVal, NoneVal, NoneVal, st)   \* None
Pending      == Row("pending", NoneVal, NoneVal, NoneVal, NoneVal, 0)
Raising(st)  == Row("raise", NoneVal, NoneVal, NoneVal, NoneVal, st)

\* a _parse_page without the except clause
ParsePageNoCatch(t, r) ==
  IF r.status = 0 THEN Raising(r.status)
  ELSE LET title == ParseTitle(t, r)
           date  == ParseDate(t, r)
           text  == ParseText(t, r)
       IN IF t = "rbc" /\ text = ""
            THEN NoneRow(r.status)
            ELSE Row("rec", title, Company, date, text, r.status)

\* _parse_page: try: ... return {...} / except Exception: return {}
ParsePage(t, r) ==
  IF r.status = 0 THEN EmptyRow(r.status)
  ELSE LET title == ParseTitle(t, r)
           date  == ParseDate(t, r)
           text  == ParseText(t, r)
       IN IF t = "rbc" /\ text = ""
            THEN NoneRow(r.status)
            ELSE Row("rec", title, Company, date, text, r.status)

(* ------------------------------ CSVWriter ------------------------------ *)
\* row.values()
Values(row) ==
  IF row.kind = "rec" THEN <<row.title, row.company, row.date, row.text>>
  ELSE <<>>

\* csv.DictWriter.writerow: row.get(field, "") per header, None written as ""
Cells(row) ==
  [j \in 1..Len(CSV_HEADERS) |->
     IF row.kind # "rec" THEN ""
     ELSE LET v == Values(row)[j] IN IF v = NoneVal THEN "" ELSE v]

\* the test write_data applies to a row: "write", "skip" or the exception
WriteTest(t, row) ==
  IF t = "rbc"
    THEN (IF row.kind # "none" THEN "write" ELSE "skip")
  ELSE IF row.kind = "none" THEN "AttributeError"
  ELSE IF \A j \in 1..Len(Values(row)) : Values(row)[j] # NoneVal
    THEN "write" ELSE "skip"

\* a line of the file; src is the index in data of the row it was made from
\* (0 for the header)
Line(i, cells) == [src |-> i, cells |-> cells]

RECURSIVE WriteRows(_, _, _, _)
WriteRows(t, data, i, acc) ==
  IF i > Len(data) THEN [lines |-> acc, raised |-> "none"]
  ELSE LET w == WriteTest(t, data[i]) IN
       IF w = "write"
         THEN WriteRows(t, data, i + 1, Append(acc, Line(i, Cells(data[i]))))
       ELSE IF w = "skip" THEN WriteRows(t, data, i + 1, acc)
       ELSE [lines |-> acc, raised |-> w]

\* write_data: writeheader(), then the loop over data
WriteDataLines(t, data) == WriteRows(t, data, 1, <<Line(0, CSV_HEADERS)>>)

(* ------------------------------ site main ------------------------------ *)
\* session.close(): closing a closed session does nothing
CloseSession(s) == IF s = "open" THEN "closed" ELSE s

AllDone(rs) == \A i \in 1..Len(rs) : rs[i].kind # "pending"

\* logger.info; DataParser(); parse_data up to its first suspension.  With
\* no address there is none: gather() of nothing is already done and the
\* serial loop has no iteration
OpenSessions(t) ==
  /\ cur = t /\ pc[t] = "collected"
  /\ sessA' = [sessA EXCEPT ![t] = "open"]
  /\ last' = [last EXCEPT ![t] = IF t = "rambler" THEN 0 ELSE Len(urls[t])]
  /\ results' = [results EXCEPT ![t] =
                   IF t = "rambler" THEN [i \in 1..Len(urls[t]) |-> Pending]
                   ELSE <<>>]
  /\ IF urls[t] = <<>>
       THEN /\ sessB' = [sessB EXCEPT ![t] = CloseSession("open")]
            /\ pc' = [pc EXCEPT ![t] = "fetched"]
            /\ UNCHANGED cur
       ELSE /\ sessB' = [sessB EXCEPT ![t] = "open"]
            /\ pc' = [pc EXCEPT ![t] = IF t = "rambler" THEN "gather" ELSE "fetching"]
            /\ cur' = "none"
  /\ UNCHANGED <<ready, mainState, exc, browser, dom, marker, sigint, urls, file>>
  /\ UNCHANGED loaderVars

\* the effect of one _parse_page result on parse_data
Fetched(t, rs, row) ==
  IF row.kind = "raise"
    THEN /\ pc' = [pc EXCEPT ![t] = "raised"]
         /\ exc' = [exc EXCEPT ![t] = "ClientError"]
         /\ sessB' = [sessB EXCEPT ![t] = CloseSession(@)]
         /\ sessA' = [sessA EXCEPT ![t] = CloseSession(@)]
         /\ UNCHANGED <<results, cur>>
    ELSE /\ results' = [results EXCEPT ![t] = rs]
         /\ UNCHANGED <<exc, sessA>>
         /\ IF Len(rs) = Len(urls[t]) /\ AllDone(rs)
              THEN /\ sessB' = [sessB EXCEPT ![t] = CloseSession(@)]
                   /\ pc' = [pc EXCEPT ![t] = "fetched"]
                   /\ cur' = t
              ELSE UNCHANGED <<sessB, pc, cur>>

\* rambler: one of the gathered _parse_page calls completes
FetchPage(t, i) ==
  /\ cur = "none" /\ ready = <<>> /\ mainState = "waiting"
  /\ pc[t] = "gather" /\ i \in 1..Len(results[t])
  /\ results[t][i].kind = "pending"
  /\ \E r \in Responses :
       Fetched(t, [results[t] EXCEPT ![i] = ParsePage(t, r)], ParsePage(t, r))
  /\ UNCHANGED <<ready, mainState, browser, dom, marker, sigint, urls, last, file>>
  /\ UNCHANGED loaderVars

\* rbc, ria: one iteration of the serial loop: sleep(3), _parse_page, append,
\* the progress line, last -= 1
FetchNext(t) ==
  /\ cur = "none" /\ ready = <<>> /\ mainState = "waiting"
  /\ pc[t] = "fetching"
  /\ \E r \in Responses :
       /\ Fetched(t, Append(results[t], ParsePage(t, r)), ParsePage(t, r))
       /\ last' = [last EXCEPT ![t] =
                     IF ParsePage(t, r).kind = "raise" THEN @ ELSE @ - 1]
  /\ UNCHANGED <<ready, mainState, browser, dom, marker, sigint, urls, file>>
  /\ UNCHANGED loaderVars

\* CSVWriter(...).write_data(parsed_data), the finally clause and the second
\* close_session
WriteData(t) ==
  /\ cur = t /\ pc[t] = "fetched"
  /\ LET w == WriteDataLines(t, results[t]) IN
       /\ file' = [file EXCEPT ![t] = @ \o w.lines]
       /\ pc' = [pc EXCEPT ![t] = IF w.raised = "none" THEN "done" ELSE "raised"]
       /\ exc' = [exc EXCEPT ![t] = w.raised]
  /\ sessA' = [sessA EXCEPT ![t] = CloseSession(@)]
  /\ cur' = "none"
  /\ UNCHANGED <<ready, mainState, browser, dom, marker, sigint, urls,
                 sessB, results, last>>
  /\ UNCHANGED loaderVars

\* open(filename, "a+") raises OSError: nothing is written, finally closes
WriteFail(t) ==
  /\ cur = t /\ pc[t] = "fetched"
  /\ pc' = [pc EXCEPT ![t] = "raised"]
  /\ exc' = [exc EXCEPT ![t] = "OSError"]
  /\ sessA' = [sessA EXCEPT ![t] = CloseSession(@)]
  /\ cur' = "none"
  /\ UNCHANGED <<ready, mainState, browser, dom, marker, sigint, urls,
                 sessB, results, last, file>>
  /\ UNCHANGED loaderVars

(* ------------------------------ main.main ------------------------------ *)
Suspended(t) == pc[t] \in {"gather", "fetching"}

\* await asyncio.gather(*tasks) raises the first exception of a task;
\* asyncio.run then cancels every task that is not done: a task that never
\* ran is cancelled before its first step, a suspended one gets
\* CancelledError at its await and leaves through "async with" and finally
MainRaise ==
  /\ cur = "none" /\ mainState = "waiting"
  /\ \E t \in Targets : pc[t] = "raised"
  /\ loopBroken \/ ready = <<>>
  /\ mainState' = "raised"
  /\ ready' = <<>>
  /\ pc' = [t \in Targets |->
              IF pc[t] = "pending" \/ Suspended(t) THEN "cancelled" ELSE pc[t]]
  /\ sessA' = [t \in Targets |->
              IF Suspended(t) THEN CloseSession(sessA[t]) ELSE sessA[t]]
  /\ sessB' = [t \in Targets |->
              IF Suspended(t) THEN CloseSession(sessB[t]) ELSE sessB[t]]
  /\ UNCHANGED <<cur, exc, browser, dom, marker, sigint, urls, results,
                 last, file>>
  /\ UNCHANGED loaderVars

\* every gathered task returned: main.main returns
MainReturn ==
  /\ cur = "none" /\ mainState = "waiting"
  /\ \A t \in Targets : pc[t] = "done"
  /\ mainState' = "returned"
  /\ UNCHANGED <<pc, cur, ready, exc, browser, dom, marker, sigint, urls>>
  /\ UNCHANGED loaderVars
  /\ UNCHANGED fetchVars

Next ==
  \/ \E t \in Targets :
       \/ Launch(t) \/ LaunchFail(t) \/ Check(t) \/ Scroll(t) \/ ScrollCrash(t)
       \/ Click(t) \/ Extract(t) \/ Interrupt(t)
       \/ OpenSessions(t) \/ FetchNext(t) \/ WriteData(t) \/ WriteFail(t)
       \/ \E i \in 1..MaxNodes : FetchPage(t, i)
  \/ MainRaise
  \/ MainReturn

Spec == Init /\ [][Next]_vars

(* ============================== properties ============================= *)
LoopPcs == {"check", "scroll", "click"}
Exited(t) == pc[t] \in {"done", "raised", "cancelled"}

\* the hrefs of the nodes the link selector matches, in document order
MatchIdx(d) == { i \in 1..Len(d) : d[i].cls = "match" }
NthMatch(d, k) ==
  CHOOSE i \in MatchIdx(d) : Cardinality({ j \in MatchIdx(d) : j < i }) = k - 1
MatchedHrefs(d) ==
  [k \in 1..Cardinality(MatchIdx(d)) |-> d[NthMatch(d, k)].hrefs[1]]

\* the lines of t's file written from row i of parsed_data
LinesOf(t, i) == { n \in 1..Len(file[t]) : file[t][n].src = i }

\* all four required fields of a row are populated
Populated(row) ==
  /\ row.kind = "rec"
  /\ \A v \in {row.title, row.company, row.date, row.text} :
       v # NoneVal /\ v # ""

\* C1: the scroll loop of collect_urls ends within a fixed number of
\* iterations even if the completion marker never appears.
IterationCeiling == MaxScroll - 1
C1_LoopWithinCeiling == \A t \in Targets : scrolls[t] <= IterationCeiling

\* C2: a KeyboardInterrupt raised while a target's scroll loop runs stops the
\* loop, and collect_urls returns the hrefs of the anchors matched in the
\* document as loaded at that moment, not an empty list or an error.
C2_InterruptExtractsPartialLoad ==
  [][\A t \in Targets :
       (pc[t] \in LoopPcs /\ ~sigint[t] /\ sigint'[t])
         => (pc'[t] = "collected" /\ urls'[t] = MatchedHrefs(dom[t]))]_vars

\* C3: after write_data, a row with a null or empty required field has no
\* line in the file and a row with all four fields populated has exactly one.
C3_OnlyPopulatedRowsWritten ==
  \A t \in Targets :
    pc[t] = "done" =>
      \A i \in 1..Len(results[t]) :
        Cardinality(LinesOf(t, i)) = IF Populated(results[t][i]) THEN 1 ELSE 0

\* C4: when one of the gathered crawls fails with a fatal browser error in
\* its discovery phase, the other two still run to completion before the
\* program ends: a sibling is never cancelled.
FailedInDiscovery(t) ==
  pc[t] = "raised" /\ exc[t] = "WebDriverException" /\ sessA[t] = "none"

C4_SiblingsComplete ==
  \A t \in Targets :
    (mainState # "waiting" /\ FailedInDiscovery(t)
       /\ \A u \in Targets \ {t} : pc[u] # "raised")
      => \A u \in Targets \ {t} : pc[u] = "done"

\* C5: a fetch error on one address does not abort the batch: parse_data
\* never raises it, and when parse_data has returned there is one result per
\* address, every address having been fetched.
ParseDataReturned(t) ==
  pc[t] \in {"fetched", "done"} \/ (pc[t] = "raised" /\ sessA[t] # "none")

C5_FetchErrorKeepsBatch ==
  \A t \in Targets :
    /\ exc[t] # "ClientError"
    /\ Len(results[t]) <= Len(urls[t])
    /\ ParseDataReturned(t) =>
         /\ Len(results[t]) = Len(urls[t])
         /\ AllDone(results[t])

C5_Witness ==
  \E t \in Targets :
    /\ pc[t] = "fetched" /\ Len(urls[t]) = 2
    /\ results[t][1].status = 0
    /\ results[t][2].status = 200 /\ results[t][2].kind = "rec"

\* C6: an address whose fetch failed (network failure, timeout or a status
\* that is not 2xx) has no line in the output file.
C6_FailedFetchWritesNoRow ==
  \A t \in Targets :
    pc[t] = "done" =>
      \A i \in 1..Len(results[t]) :
        results[t][i].status # 200 => LinesOf(t, i) = {}

C8_SessionsClosedOnExit ==
  \A t \in Targets :
    Exited(t) =>
      /\ browser[t] # "open" /\ sessA[t] # "open" /\ sessB[t] # "open"

C8_Witness ==
  /\ pc["rambler"] = "raised" /\ browser["rambler"] = "closed"
  /\ pc["rbc"] = "cancelled" /\ browser["rbc"] = "closed"
  /\ sessA["rbc"] = "closed" /\ sessB["rbc"] = "closed"
  /\ pc["ria"] = "done" /\ browser["ria"] = "closed"
  /\ sessA["ria"] = "closed" /\ sessB["ria"] = "closed"

\* C9: once a completion check has returned true the loop issues no further
\* scroll or trigger action: a check that reads the marker sends the loop
\* straight to link extraction at that iteration.
C9_NoScrollAfterComplete ==
  /\ [](\A t \in Targets : scroll_complete[t] => pc[t] = "extract")
  /\ [][\A t \in Targets :
          scroll_complete[t]
            => (scrolls'[t] <= scrolls[t] /\ clicks'[t] <= clicks[t])]_vars
  /\ [][\A t \in Targets :
          (pc[t] = "check" /\ lastRead'[t] = "present")
            => (pc'[t] = "extract" /\ scrolls'[t] = scrolls[t])]_vars

C9_Witness ==
  \E t \in Targets :
    /\ pc[t] = "extract" /\ scroll_complete[t] /\ lastRead[t] = "present"
    /\ scrolls[t] = 2

\* C10: ria attempts the "load more" trigger in the first loop iteration and
\* in no later one, whatever the attempt's outcome.
C10_TriggerOnlyFirstIteration ==
  LET t == "ria" IN
    /\ clicks[t] <= 1
    /\ pc[t] = "click" => (scrolls[t] = 1 /\ clicks[t] = 0)
    /\ (pc[t] \in {"check", "extract"} \/ (pc[t] = "scroll" /\ scrolls[t] >= 1))
         => (clicks[t] = 1 /\ button_clicked[t])

C10_Witness ==
  /\ pc["ria"] = "check" /\ scrolls["ria"] = 2
  /\ clicks["ria"] = 1 /\ button_clicked["ria"]

\* C11: a transient failure of the body read in a completion check (a stale
\* element, no body element yet) counts as "not yet complete": the check is
\* false, the loop goes on to another iteration with the browser still open,
\* and no exception of the check leaves collect_urls.
TransientReads == {"stale", "nobody"}

C11_TransientReadIsNotComplete ==
  /\ [][\A t \in Targets :
          (pc[t] = "check" /\ pc'[t] = "raised")
            => exc'[t] = "KeyboardInterrupt"]_vars
  /\ [][\A t \in Targets :
          (pc[t] = "check" /\ lastRead'[t] \in TransientReads)
            => /\ pc'[t] = "scroll" /\ ~scroll_complete'[t]
               /\ browser'[t] = "open" /\ exc'[t] = "none"]_vars

C11_Witness ==
  \E t \in Targets :
    /\ pc[t] = "check" /\ lastRead[t] \in TransientReads
    /\ marker[t] /\ scrolls[t] = 2 /\ browser[t] = "open"

\* C12: the discovery phases of the gathered crawls never overlap.  A task
\* inside collect_urls holds the event-loop thread until the call is left,
\* so at most one browser session is open at any time, and while any target
\* is in its scroll loop or extraction no other target takes a step and no
\* fetch, progress countdown or write of any target happens.
DiscoveryPcs == {"check", "scroll", "click", "extract"}
OpenBrowsers == { t \in Targets : browser[t] = "open" }

C12_DiscoveryNeverOverlaps ==
  /\ [](Cardinality(OpenBrowsers) <= 1)
  /\ [](\A t \in Targets :
          (pc[t] \in DiscoveryPcs \/ browser[t] = "open") => cur = t)
  /\ [][(\E t \in Targets : pc[t] \in DiscoveryPcs)
          => /\ UNCHANGED <<results, last, file, sessA, sessB, mainState>>
             /\ \A t, u \in Targets :
                  (pc[t] \in DiscoveryPcs /\ u # t) => pc'[u] = pc[u]]_vars

C12_Witness ==
  /\ pc["rambler"] = "gather" /\ results["rambler"] = <<Pending>>
  /\ browser["rambler"] = "closed"
  /\ pc["rbc"] = "check" /\ scrolls["rbc"] = 2 /\ browser["rbc"] = "open"
  /\ pc["ria"] = "pending"
====
